---------------------------- MODULE Spec2Model ----------------------------
(***************************************************************************)
(* The two speech services of the repository, each an HTTP process around  *)
(* a lazily loaded model singleton:                                        *)
(*   ml-services/stt-service/app.py   startup, health, transcribe          *)
(*   ml-services/tts-service/app.py   startup, health, predict, get_audio  *)
(* A process runs one of the two applications (proc).  The handlers are    *)
(* coroutines on one event loop: code between two awaits is one atomic     *)
(* step.  transcribe has a single await (file.read()); every other handler *)
(* has none and is one step.                                               *)
(*                                                                         *)
(* Strings whose characters matter (text, voice_id, paths, URLs) are       *)
(* sequences of tokens; a token is a special character ("/", "?", "_",     *)
(* " ") or a run of plain characters ("app", ".wav").  An Optional value   *)
(* is a sequence of length at most one: <<>> is None, <<x>> is x.          *)
(***************************************************************************)
EXTENDS Integers, Sequences, FiniteSets

VARIABLES
    proc,       \* which application this process runs: "stt" or "tts"
    phase,      \* "boot" (nothing served yet), "serving", "exited"
    model,      \* stt-service global `model`: 0 is None, n > 0 the n-th handle built
    tts_model,  \* tts-service global `tts_model`, same encoding
    getCalls,   \* calls of get_model so far
    ctorRuns,   \* times the model constructor was entered
    loads,      \* times the model constructor returned a handle
    served,     \* handler invocations accepted so far (health, transcribe, predict)
    errors,     \* responses with status 400 or 500 sent so far
    reading,    \* transcribe requests suspended in `await file.read()`: payload lengths by id
    tmpCount,   \* temporary files created so far (each gets the next fresh name)
    tmpFiles,   \* temporary files on disk
    outFiles,   \* files on disk written by synthesis (absolute paths)
    issued,     \* [path, url] pairs returned by successful predict responses
    last        \* the step completed last: its inputs, what it did and its answer

vars == <<proc, phase, model, tts_model, getCalls, ctorRuns, loads, served, errors,
          reading, tmpCount, tmpFiles, outFiles, issued, last>>

(***************************************************************************)
(* Bounds of the model.                                                    *)
(***************************************************************************)
\* handler invocations (health, transcribe, predict) one process accepts
MaxReq == 2

(***************************************************************************)
(* Python values.                                                          *)
(***************************************************************************)
None == <<>>

Some(x) == <<x>>

\* `x or d` for an Optional number: None and 0 are falsy
OrNumber(x, d) == IF x = None \/ x = Some(0) THEN d ELSE x[1]

\* `x or d` for an Optional string: None and "" are falsy
OrString(x, d) == IF x = None \/ x = Some(<<>>) THEN d ELSE x[1]

\* str.strip(): leading and trailing whitespace removed
RECURSIVE LStrip(_)
LStrip(s) == IF s # <<>> /\ Head(s) = " " THEN LStrip(Tail(s)) ELSE s

RECURSIVE RStrip(_)
RStrip(s) == IF s # <<>> /\ s[Len(s)] = " " THEN RStrip(SubSeq(s, 1, Len(s) - 1)) ELSE s

Strip(s) == RStrip(LStrip(s))

\* the positions of token c in s
Positions(s, c) == {i \in 1..Len(s) : s[i] = c}

Max(S) == CHOOSE x \in S : \A y \in S : y <= x

Min(S) == CHOOSE x \in S : \A y \in S : x <= y

IsPrefix(p, s) == Len(p) <= Len(s) /\ SubSeq(s, 1, Len(p)) = p

(***************************************************************************)
(* The model handle and its lazy construction (both services).             *)
(***************************************************************************)
\* `model = None` / `tts_model = None` at import
NoModel == 0

\* what one get_model call does: the global afterwards, the handle returned (when
\* it returns), whether the constructor ran and whether it raised
LoadResult(global, m, ran, raised) ==
    [global |-> global, m |-> m, ran |-> ran, raised |-> raised]

\* a stt-service get_model that never looks at the global
stt_always_load(h) == TRUE

\* stt-service `if model is None:`
stt_needs_load(h) == h = NoModel

\* stt-service get_model(): h the global, built the handles built so far, ctorOk
\* whether WhisperModel(...) returns (it raises otherwise, the global left as it was)
get_model(h, built, ctorOk) ==
    IF stt_needs_load(h)
    THEN IF ctorOk
         THEN LoadResult(built + 1, built + 1, TRUE, FALSE)
         ELSE LoadResult(h, NoModel, TRUE, TRUE)
    ELSE LoadResult(h, h, FALSE, FALSE)

\* tts-service `if tts_model is None:`
tts_needs_load(h) == h = NoModel

\* a tts-service get_model that returns the global as read on entry
tts_get_model_stale(h, built, ctorOk) ==
    IF tts_needs_load(h)
    THEN IF ctorOk
         THEN LoadResult(built + 1, h, TRUE, FALSE)
         ELSE LoadResult(h, NoModel, TRUE, TRUE)
    ELSE LoadResult(h, h, FALSE, FALSE)

\* tts-service get_model(): TTS(model_name=...).to(DEVICE) returns or raises
tts_get_model(h, built, ctorOk) ==
    IF tts_needs_load(h)
    THEN IF ctorOk
         THEN LoadResult(built + 1, built + 1, TRUE, FALSE)
         ELSE LoadResult(h, NoModel, TRUE, TRUE)
    ELSE LoadResult(h, h, FALSE, FALSE)

\* 1 if b else 0
Count(b) == IF b THEN 1 ELSE 0

(***************************************************************************)
(* stt-service: transcribe.                                                *)
(***************************************************************************)
\* `30 * 1024 * 1024`
MaxUploadBytes == 30 * 1024 * 1024

\* payload lengths a client sends: empty, small, exactly the limit, one byte over
PayloadLens == {0, 1, MaxUploadBytes, MaxUploadBytes + 1}

\* `len(audio_bytes) == 0`
EmptyPayload(n) == n = 0

\* a size check that also refuses a payload of exactly the limit
TooLargeInclusive(n) == n >= MaxUploadBytes

\* `len(audio_bytes) > 30 * 1024 * 1024`
TooLarge(n) == n > MaxUploadBytes

\* the filenames of the uploads: none, with an extension, with a leading dot and no
\* extension, with an extension too long for a file name ("x300" stands for a run
\* of 300 plain characters), and with a dot only before a "/"
Filenames ==
    {None, Some(<<"a", ".", "mp3">>), Some(<<".", "a">>), Some(<<"a", ".", "x300">>),
     Some(<<"a", ".", "x300", "/", "b">>)}

\* the uploads sent: every length under the default name, and every filename with
\* a small payload
Uploads ==
    {[len |-> n, filename |-> None] : n \in PayloadLens}
    \cup {[len |-> 1, filename |-> f] : f \in Filenames}

\* os.path.splitext(name)[1]: from the last dot on, when that dot lies after the
\* last "/" and a character other than a dot stands between the two (the tokens
\* "." and ".." are dots)
SplitExt(name) ==
    LET sep == Max(Positions(name, "/") \cup {0})
        dots == {i \in 1..Len(name) : name[i] \in {".", ".."}}
        last_dot == Max(dots)
    IN
    IF dots = {} THEN <<>>
    ELSE IF last_dot < sep THEN <<>>
    ELSE IF \A i \in (sep + 1)..(last_dot - 1) : name[i] \in {".", ".."} THEN <<>>
    ELSE <<".">> \o SubSeq(name, last_dot + 1, Len(name))

\* `os.path.splitext(file.filename or "audio.wav")[1] or ".wav"`
Suffix(filename) ==
    LET ext == SplitExt(OrString(filename, <<"audio", ".", "wav">>)) IN
    IF ext = <<>> THEN <<".", "wav">> ELSE ext

\* the temporary file's name, the random part and the suffix, exceeds what a file
\* name may hold: mkstemp raises OSError
NameTooLong(suffix) == \E i \in 1..Len(suffix) : suffix[i] = "x300"

\* an except clause that drops the handle so that the next request reloads
transcribe_except_reset(h) == NoModel

\* `except Exception as e:` logs and raises HTTPException(500): the global stays
transcribe_except(h) == h

\* What transcribe does after `await file.read()` returned n bytes.
\*   h, built   the global `model` and the handles built so far
\*   filename   file.filename, from which the temporary file's suffix is taken
\*   name       the fresh name NamedTemporaryFile picks
\*   createOk   NamedTemporaryFile(...) can create a file (it raises OSError
\*              otherwise, as it does for a name that is too long)
\*   writeOk    tmp.write(audio_bytes) returns (it raises OSError otherwise)
\*   ctorOk     WhisperModel(...) returns, should get_model have to load
\*   decodeOk   m.transcribe(...) and the reading of its segments return
\* The result: status, suffix (Some(suffix) once it is computed), tmp (the
\* temporary file created, 0 for none), kept (it is
\* still on disk at the end), called (get_model was called), ran (the constructor
\* ran), built (a handle was built), invoked (m.transcribe was called), m (the
\* handle it was called on), global (`model` afterwards).
TranscribeResult(status, suffix, tmp, kept, called, ran, blt, invoked, m, global) ==
    [status |-> status, suffix |-> suffix, tmp |-> tmp, kept |-> kept,
     called |-> called, ran |-> ran, built |-> blt, invoked |-> invoked, m |-> m,
     global |-> global]

transcribe(n, filename, h, built, name, createOk, writeOk, ctorOk, decodeOk) ==
    IF EmptyPayload(n) THEN
        TranscribeResult(400, None, 0, FALSE, FALSE, FALSE, FALSE, FALSE, NoModel, h)
    ELSE IF TooLarge(n) THEN
        TranscribeResult(400, None, 0, FALSE, FALSE, FALSE, FALSE, FALSE, NoModel, h)
    ELSE
        LET suffix == Suffix(filename) IN
        IF ~createOk \/ NameTooLong(suffix) THEN
            \* NamedTemporaryFile raises, before `try:`: no file exists and the
            \* framework answers 500
            TranscribeResult(500, Some(suffix), 0, FALSE, FALSE, FALSE, FALSE, FALSE,
                             NoModel, h)
        ELSE IF ~writeOk THEN
            \* the with block is left by the exception, before `try:`: delete=False
            \* keeps the file and no finally clause covers it; the framework
            \* answers 500
            TranscribeResult(500, Some(suffix), name, TRUE, FALSE, FALSE, FALSE, FALSE,
                             NoModel, h)
        ELSE
            LET g == get_model(h, built, ctorOk) IN
            IF g.raised THEN
                TranscribeResult(500, Some(suffix), name, FALSE, TRUE, g.ran, FALSE,
                                 FALSE, NoModel, transcribe_except(g.global))
            ELSE IF ~decodeOk THEN
                TranscribeResult(500, Some(suffix), name, FALSE, TRUE, g.ran, g.ran,
                                 TRUE, g.m, transcribe_except(g.global))
            ELSE
                TranscribeResult(200, Some(suffix), name, FALSE, TRUE, g.ran, g.ran,
                                 TRUE, g.m, g.global)

(***************************************************************************)
(* tts-service: the request, names and paths.                              *)
(***************************************************************************)
\* TTS_OUTPUT_DIR, by default "/app/synthesized"
OUTPUT_DIR == <<"/", "app", "/", "synthesized">>

\* the directories there are: `Path(OUTPUT_DIR).mkdir(parents=True, exist_ok=True)`
ExistingDirs == {<<"/">>, <<"/", "app">>, OUTPUT_DIR}

\* the reference recordings on disk besides what synthesis writes
ExistingRefs == {<<"/", "ref.wav">>}

\* the route prefix of `@app.get("/ml/tts/audio/{filename}")`
AudioRoute == <<"/", "ml", "/", "tts", "/", "audio", "/">>

\* os.path.join(dir, name): an absolute name replaces dir
PathJoin(dir, name) ==
    IF name # <<>> /\ Head(name) = "/" THEN name ELSE dir \o <<"/">> \o name

\* os.path.dirname(p)
Dirname(p) ==
    LET ps == Positions(p, "/") IN
    IF ps = {} THEN <<>>
    ELSE IF Max(ps) = 1 THEN <<"/">>
    ELSE SubSeq(p, 1, Max(ps) - 1)

\* the components of a path: the runs of tokens between its "/"
RECURSIVE ComponentsFrom(_, _, _)
ComponentsFrom(p, i, cur) ==
    IF i > Len(p) THEN (IF cur = <<>> THEN <<>> ELSE <<cur>>)
    ELSE IF p[i] = "/" THEN
        (IF cur = <<>> THEN <<>> ELSE <<cur>>) \o ComponentsFrom(p, i + 1, <<>>)
    ELSE ComponentsFrom(p, i + 1, Append(cur, p[i]))

Components(p) == ComponentsFrom(p, 1, <<>>)

\* the entry c of directory dir
Child(dir, c) == IF dir = <<"/">> THEN dir \o c ELSE dir \o <<"/">> \o c

\* what a component leads to from directory dir: dir itself for ".", its parent
\* for "..", the entry of that name otherwise
Step(dir, c) ==
    IF c = <<".">> THEN dir
    ELSE IF c = <<"..">> THEN Dirname(dir)
    ELSE Child(dir, c)

\* the directory the operating system reaches from dir through the components:
\* each one has to be a directory there is (None otherwise)
RECURSIVE Walk(_, _)
Walk(dir, comps) ==
    IF comps = <<>> THEN Some(dir)
    ELSE LET d == Step(dir, Head(comps)) IN
         IF d \in ExistingDirs THEN Walk(d, Tail(comps)) ELSE None

\* the place a path names once the operating system has resolved "." and "..",
\* from the root: Some(path), or None when the path is empty, a directory on the
\* way does not exist, a name in it is longer than a file name may be (OSError,
\* ENAMETOOLONG), or the path ends in "/" and what it names is no directory
\* (ENOTDIR)
RealPath(p) ==
    LET comps == Components(p) IN
    IF p = <<>> \/ NameTooLong(p) THEN None
    ELSE IF comps = <<>> THEN Some(<<"/">>)
    ELSE LET parent == Walk(<<"/">>, SubSeq(comps, 1, Len(comps) - 1))
             named == Step(parent[1], comps[Len(comps)])
         IN
         IF parent = None THEN None
         ELSE IF p[Len(p)] = "/" /\ named \notin ExistingDirs THEN None
         ELSE Some(named)

\* os.path.exists(p), files being the files on disk: true of directories too
Exists(p, files) ==
    LET real == RealPath(p) IN
    real # None /\ (real[1] \in files \/ real[1] \in ExistingDirs)

\* a file can be written at p: its directory exists, its name is not too long and
\* p names no directory
Writable(p) ==
    LET real == RealPath(p) IN
    real # None /\ real[1] \notin ExistingDirs

\* class SynthesizeRequest: the values a client sends (emotion is never read)
Texts == {<<>>, <<" ">>, <<" ", "hi">>}

Languages == {"", "en", "xx"}

VoiceIds ==
    {None, Some(<<"v">>), Some(<<"v", "?">>), Some(<<"/", "v">>), Some(<<"..", "/", "x">>),
     Some(<<"x300">>)}

\* speaker_wav: null, "", a reference recording, the same with a "/" after it, a
\* path that names nothing, the output directory, and a file an earlier synthesis
\* may have written
SpeakerWavs ==
    {None, Some(<<>>), Some(<<"/", "ref.wav">>), Some(<<"/", "ref.wav", "/">>),
     Some(<<"/", "gone.wav">>), Some(OUTPUT_DIR),
     Some(OUTPUT_DIR \o <<"/", "default", "_", "0a", ".wav">>)}

Speeds == {None, Some(0), Some(2)}

\* a request with the optional fields left out, and one with them set
PlainRequest ==
    [text |-> <<" ", "hi">>, language |-> "en", voice_id |-> None,
     speaker_wav |-> None, speed |-> None]

FullRequest ==
    [text |-> <<" ", "hi">>, language |-> "en", voice_id |-> Some(<<"v">>),
     speaker_wav |-> Some(<<"/", "ref.wav">>), speed |-> Some(2)]

\* the requests sent: every text with every language around both of these, every
\* voice_id, and every speaker_wav with every speed
SynthesizeRequest ==
    {[b EXCEPT !.text = t, !.language = l] :
        b \in {PlainRequest, FullRequest}, t \in Texts, l \in Languages}
    \cup {[PlainRequest EXCEPT !.voice_id = v] : v \in VoiceIds}
    \cup {[PlainRequest EXCEPT !.speaker_wav = w, !.speed = s] :
            w \in SpeakerWavs, s \in Speeds}

\* the values of uuid.uuid4().hex[:8] (one token stands for the eight digits)
HexSuffixes == {"0a", "1b"}

\* how synthesis ends: "ok"; "raise", tts_to_file raises before it writes;
\* "unreadable", the file is written and a later step (sf.read, sf.write) raises
SynthOutcomes == {"ok", "raise", "unreadable"}

\* the default of `req.speed or 1.0`
DefaultSpeed == 1

\* a text check that does not trim
TextMissingNoStrip(text) == text = <<>>

\* `not req.text or not req.text.strip()`
TextMissing(text) == text = <<>> \/ Strip(text) = <<>>

\* `not req.language`
LanguageMissing(language) == language = ""

\* lang_map
lang_map ==
    [l \in {"hi", "en", "ta", "te", "bn", "es", "fr", "de", "ar", "zh-cn", "ja", "ko"} |->
        CASE l = "hi" -> "hi" [] l = "en" -> "en" [] l = "ta" -> "ta" [] l = "te" -> "te"
          [] l = "bn" -> "bn" [] l = "es" -> "es" [] l = "fr" -> "fr" [] l = "de" -> "de"
          [] l = "ar" -> "ar" [] l = "zh-cn" -> "zh-cn" [] l = "ja" -> "ja" [] l = "ko" -> "ko"]

\* a lookup that falls back to English for a code the table lacks
MapLanguageDefaultEn(language) ==
    IF language \in DOMAIN lang_map THEN lang_map[language] ELSE "en"

\* `lang_map.get(req.language, req.language)`
MapLanguage(language) ==
    IF language \in DOMAIN lang_map THEN lang_map[language] ELSE language

\* `f"{req.voice_id or 'default'}_{uuid.uuid4().hex[:8]}"`
FileId(voice_id, hex) == OrString(voice_id, <<"default">>) \o <<"_", hex>>

\* `os.path.join(OUTPUT_DIR, f"{file_id}.wav")`
OutputPath(file_id) == PathJoin(OUTPUT_DIR, file_id \o <<".wav">>)

\* `f"/ml/tts/audio/{file_id}.wav"`
AudioUrl(file_id) == AudioRoute \o file_id \o <<".wav">>

\* a branch test that trusts the supplied path
UseSpeakerUnchecked(speaker_wav, files) == speaker_wav # None /\ speaker_wav[1] # <<>>

\* `req.speaker_wav and os.path.exists(req.speaker_wav)`, files being the files on
\* disk
UseSpeaker(speaker_wav, files) ==
    speaker_wav # None /\ speaker_wav[1] # <<>> /\ Exists(speaker_wav[1], files)

\* `req.speed or 1.0`
SpeedArg(speed) == OrNumber(speed, DefaultSpeed)

(***************************************************************************)
(* tts-service: predict and get_audio.                                     *)
(***************************************************************************)
\* The result of predict: status; called, ran, built, m, global as for transcribe;
\* mode, how tts_to_file was called ("none", "clone" with speaker_wav, "default"
\* without); lang and speed, the arguments it was given; file_id, Some(id) once an
\* identifier is generated; written, Some(path) when a file is left on disk; body,
\* the success response's fields (None on an error).
PredictResult(status, called, ran, blt, m, global, mode, lang, speed, file_id, written, body) ==
    [status |-> status, called |-> called, ran |-> ran, built |-> blt, m |-> m,
     global |-> global, mode |-> mode, lang |-> lang, speed |-> speed,
     file_id |-> file_id, written |-> written, body |-> body]

\* the 400 answers: raised before `try:`, nothing else is done
PredictRejected(h) ==
    PredictResult(400, FALSE, FALSE, FALSE, NoModel, h, "none", None, None, None, None, None)

\* the response dict of a successful predict (the fields the clients read)
PredictBody(req, file_id) ==
    [audio_path |-> OutputPath(file_id),
     audio_url |-> AudioUrl(file_id),
     language |-> req.language,
     voice_id |-> OrString(req.voice_id, <<"default">>),
     speed |-> SpeedArg(req.speed)]

\* predict(req): h, built as above; hex the random suffix; ctorOk whether the model
\* constructor returns, should get_model have to load; synth how synthesis ends;
\* files the files on disk
predict(req, h, built, hex, ctorOk, synth, files) ==
    IF TextMissing(req.text) THEN PredictRejected(h)
    ELSE IF LanguageMissing(req.language) THEN PredictRejected(h)
    ELSE
        LET g == tts_get_model(h, built, ctorOk) IN
        IF g.raised THEN
            PredictResult(500, TRUE, g.ran, FALSE, NoModel, g.global, "none",
                          None, None, None, None, None)
        ELSE
            LET lang == MapLanguage(req.language)
                file_id == FileId(req.voice_id, hex)
                output_path == OutputPath(file_id)
                mode == IF UseSpeaker(req.speaker_wav, files) THEN "clone" ELSE "default"
                speed == SpeedArg(req.speed)
                \* tts_to_file opens output_path for writing
                writable == Writable(output_path)
            IN
            IF synth = "raise" \/ ~writable THEN
                PredictResult(500, TRUE, g.ran, g.ran, g.m, g.global, mode,
                              Some(lang), Some(speed), Some(file_id), None, None)
            ELSE IF synth = "unreadable" THEN
                PredictResult(500, TRUE, g.ran, g.ran, g.m, g.global, mode,
                              Some(lang), Some(speed), Some(file_id), Some(output_path), None)
            ELSE
                PredictResult(200, TRUE, g.ran, g.ran, g.m, g.global, mode,
                              Some(lang), Some(speed), Some(file_id), Some(output_path),
                              Some(PredictBody(req, file_id)))

\* the path of a request URL: what precedes the first "?"
UrlPath(url) ==
    LET qs == Positions(url, "?") IN
    IF qs = {} THEN url ELSE SubSeq(url, 1, Min(qs) - 1)

\* the route "/ml/tts/audio/{filename}": filename is one non-empty path segment
RouteFilename(path) ==
    IF ~IsPrefix(AudioRoute, path) THEN None
    ELSE LET rest == SubSeq(path, Len(AudioRoute) + 1, Len(path)) IN
         IF rest = <<>> \/ Positions(rest, "/") # {} THEN None ELSE Some(rest)

\* GET url: the router's answer (404 when no route matches), else get_audio(filename);
\* file is the path the handler hands to FileResponse
get_audio(url, files) ==
    LET filename == RouteFilename(UrlPath(url)) IN
    IF filename = None THEN [status |-> 404, file |-> None]
    ELSE LET file_path == PathJoin(OUTPUT_DIR, filename[1]) IN
         IF ~Exists(file_path, files) THEN [status |-> 404, file |-> None]
         ELSE [status |-> 200, file |-> Some(file_path)]

(***************************************************************************)
(* The state machine.                                                      *)
(***************************************************************************)
\* the outcomes of the model constructor a call can meet: it runs only on a load
CtorOutcomes(h) == IF h = NoModel THEN BOOLEAN ELSE {TRUE}

\* what a transcribe request can meet: a request ends at the first call that
\* raises, so at most one of the calls it makes fails
TranscribeOutcomes(h) ==
    {o \in [create : BOOLEAN, write : BOOLEAN, ctor : CtorOutcomes(h), decode : BOOLEAN] :
        Cardinality({f \in {"create", "write", "ctor", "decode"} : ~o[f]}) <= 1}

\* what a predict request can meet, likewise
PredictOutcomes(h) ==
    {o \in [ctor : CtorOutcomes(h), synth : SynthOutcomes] : o.ctor \/ o.synth = "ok"}

\* an outcome as recorded in `last`: None when the step never got that far
Met(reached, outcome) == IF reached THEN Some(outcome) ELSE None

\* the files on disk: the reference recordings and what synthesis wrote
Disk == ExistingRefs \cup outFiles

Init ==
    /\ proc \in {"stt", "tts"}
    /\ phase = "boot"
    /\ model = NoModel
    /\ tts_model = NoModel
    /\ getCalls = 0
    /\ ctorRuns = 0
    /\ loads = 0
    /\ served = 0
    /\ errors = 0
    /\ reading = {}
    /\ tmpCount = 0
    /\ tmpFiles = {}
    /\ outFiles = {}
    /\ issued = {}
    /\ last = [op |-> "none"]

\* stt-service startup(): the hook runs before the first request when the server
\* runs the lifespan protocol; an exception in it ends the process
SttStartup ==
    /\ proc = "stt"
    /\ phase = "boot"
    /\ \E ctorOk \in CtorOutcomes(model) :
       \E g \in {get_model(model, loads, ctorOk)} :
        /\ model' = g.global
        /\ getCalls' = getCalls + 1
        /\ ctorRuns' = ctorRuns + Count(g.ran)
        /\ loads' = loads + Count(g.ran /\ ~g.raised)
        /\ phase' = IF g.raised THEN "exited" ELSE "serving"
        /\ last' = [op |-> "startup", before |-> model, res |-> g]
    /\ UNCHANGED <<proc, tts_model, served, errors, reading, tmpCount, tmpFiles,
                   outFiles, issued>>

\* stt-service health(): an exception of get_model is answered 500 by the framework
SttHealth ==
    /\ proc = "stt"
    /\ phase # "exited"
    /\ served < MaxReq
    /\ \E ctorOk \in CtorOutcomes(model) :
       \E g \in {get_model(model, loads, ctorOk)} :
        /\ model' = g.global
        /\ getCalls' = getCalls + 1
        /\ ctorRuns' = ctorRuns + Count(g.ran)
        /\ loads' = loads + Count(g.ran /\ ~g.raised)
        /\ errors' = errors + Count(g.raised)
        /\ last' = [op |-> "health", before |-> model, res |-> g,
                    status |-> IF g.raised THEN 500 ELSE 200]
    /\ phase' = "serving"
    /\ served' = served + 1
    /\ UNCHANGED <<proc, tts_model, reading, tmpCount, tmpFiles, outFiles, issued>>

\* transcribe up to `audio_bytes = await file.read()`: the request is suspended
\* and other requests run
TranscribeBegin ==
    /\ proc = "stt"
    /\ phase # "exited"
    /\ served < MaxReq
    /\ \E u \in Uploads :
        reading' = reading \cup {[id |-> served + 1, len |-> u.len, filename |-> u.filename]}
    /\ phase' = "serving"
    /\ served' = served + 1
    /\ UNCHANGED <<proc, model, tts_model, getCalls, ctorRuns, loads, errors, tmpCount,
                   tmpFiles, outFiles, issued, last>>

\* transcribe from the return of file.read() to its response: no await, one step
TranscribeFinish ==
    /\ proc = "stt"
    /\ \E r \in reading, o \in TranscribeOutcomes(model) :
       \E t \in {transcribe(r.len, r.filename, model, loads, tmpCount + 1, o.create,
                            o.write, o.ctor, o.decode)} :
        /\ reading' = reading \ {r}
        /\ model' = t.global
        /\ getCalls' = getCalls + Count(t.called)
        /\ ctorRuns' = ctorRuns + Count(t.ran)
        /\ loads' = loads + Count(t.built)
        /\ tmpCount' = tmpCount + Count(t.tmp # 0)
        /\ tmpFiles' = IF t.kept THEN tmpFiles \cup {t.tmp} ELSE tmpFiles
        /\ errors' = errors + Count(t.status # 200)
        /\ last' = [op |-> "transcribe", before |-> model, len |-> r.len,
                    filename |-> r.filename,
                    created |-> Met(t.suffix # None, t.tmp # 0),
                    writeOk |-> Met(t.tmp # 0, o.write),
                    ctorOk |-> Met(t.ran, o.ctor),
                    decodeOk |-> Met(t.invoked, o.decode),
                    res |-> t]
    /\ UNCHANGED <<proc, phase, tts_model, served, outFiles, issued>>

\* tts-service startup()
TtsStartup ==
    /\ proc = "tts"
    /\ phase = "boot"
    /\ \E ctorOk \in CtorOutcomes(tts_model) :
       \E g \in {tts_get_model(tts_model, loads, ctorOk)} :
        /\ tts_model' = g.global
        /\ getCalls' = getCalls + 1
        /\ ctorRuns' = ctorRuns + Count(g.ran)
        /\ loads' = loads + Count(g.ran /\ ~g.raised)
        /\ phase' = IF g.raised THEN "exited" ELSE "serving"
        /\ last' = [op |-> "startup", before |-> tts_model, res |-> g]
    /\ UNCHANGED <<proc, model, served, errors, reading, tmpCount, tmpFiles,
                   outFiles, issued>>

\* tts-service health()
TtsHealth ==
    /\ proc = "tts"
    /\ phase # "exited"
    /\ served < MaxReq
    /\ \E ctorOk \in CtorOutcomes(tts_model) :
       \E g \in {tts_get_model(tts_model, loads, ctorOk)} :
        /\ tts_model' = g.global
        /\ getCalls' = getCalls + 1
        /\ ctorRuns' = ctorRuns + Count(g.ran)
        /\ loads' = loads + Count(g.ran /\ ~g.raised)
        /\ errors' = errors + Count(g.raised)
        /\ last' = [op |-> "health", before |-> tts_model, res |-> g,
                    status |-> IF g.raised THEN 500 ELSE 200]
    /\ phase' = "serving"
    /\ served' = served + 1
    /\ UNCHANGED <<proc, model, reading, tmpCount, tmpFiles, outFiles, issued>>

\* predict(req): no await, one step
Predict ==
    /\ proc = "tts"
    /\ phase # "exited"
    /\ served < MaxReq
    /\ \E req \in SynthesizeRequest, hex \in HexSuffixes, o \in PredictOutcomes(tts_model) :
       \E p \in {predict(req, tts_model, loads, hex, o.ctor, o.synth, Disk)} :
        /\ tts_model' = p.global
        /\ getCalls' = getCalls + Count(p.called)
        /\ ctorRuns' = ctorRuns + Count(p.ran)
        /\ loads' = loads + Count(p.built)
        /\ outFiles' = IF p.written = None THEN outFiles
                       ELSE outFiles \cup {RealPath(p.written[1])[1]}
        /\ issued' = IF p.body = None THEN issued
                     ELSE issued \cup {[path |-> p.body[1].audio_path,
                                        url |-> p.body[1].audio_url]}
        /\ errors' = errors + Count(p.status # 200)
        /\ last' = [op |-> "predict", before |-> tts_model, req |-> req,
                    hex |-> Met(p.file_id # None, hex),
                    ctorOk |-> Met(p.ran, o.ctor),
                    synth |-> Met(p.mode # "none", o.synth),
                    res |-> p]
    /\ phase' = "serving"
    /\ served' = served + 1
    /\ UNCHANGED <<proc, model, reading, tmpCount, tmpFiles>>

\* the URLs clients ask for: those predict returned, one it never returned, and
\* the output directory itself
RequestedUrls ==
    {f.url : f \in issued} \cup {AudioUrl(<<"nope">>), AudioRoute \o <<".">>}

\* GET of an audio URL
GetAudio ==
    /\ proc = "tts"
    /\ phase # "exited"
    /\ \E url \in RequestedUrls :
        last' = [op |-> "get_audio", url |-> url, res |-> get_audio(url, Disk)]
    /\ phase' = "serving"
    /\ UNCHANGED <<proc, model, tts_model, getCalls, ctorRuns, loads, served, errors,
                   reading,
                   tmpCount, tmpFiles, outFiles, issued>>

Next ==
    \/ SttStartup
    \/ SttHealth
    \/ TranscribeBegin
    \/ TranscribeFinish
    \/ TtsStartup
    \/ TtsHealth
    \/ Predict
    \/ GetAudio

Spec == Init /\ [][Next]_vars

(***************************************************************************)
(* Reading the last step.                                                  *)
(***************************************************************************)
\* the last step called get_model
CalledGetModel ==
    \/ last.op \in {"startup", "health"}
    \/ last.op \in {"transcribe", "predict"} /\ last.res.called

\* the last step called inference: m.transcribe, or m.tts_to_file
InvokedInference ==
    \/ last.op = "transcribe" /\ last.res.invoked
    \/ last.op = "predict" /\ last.res.mode # "none"

\* the process-wide handle of this process's application
Handle == IF proc = "stt" THEN model ELSE tts_model

\* the request's text is empty or whitespace only, or its language is empty
InvalidSynthesis(req) ==
    \/ \A i \in 1..Len(req.text) : req.text[i] = " "
    \/ req.language = ""

\* a payload the transcription service accepts
AcceptedLen(n) == 1 <= n /\ n <= 30 * 1024 * 1024

\* what a recorded call did: it returned unless the step met its failure
Returned(met) == IF met = None THEN TRUE ELSE met[1]

\* the transcribe recorded in l run again from handle h, meeting what it met
TranscribeAgain(l, h, built, name) ==
    transcribe(l.len, l.filename, h, built, name, Returned(l.created),
               Returned(l.writeOk), Returned(l.ctorOk), Returned(l.decodeOk))

\* the predict recorded in l run again on request req from handle h with the
\* given files on disk, meeting what it met
PredictAgain(l, req, h, built, files) ==
    predict(req, h, built,
            IF l.hex = None THEN CHOOSE x \in HexSuffixes : TRUE ELSE l.hex[1],
            Returned(l.ctorOk),
            IF l.synth = None THEN "ok" ELSE l.synth[1],
            files)

\* the status the request recorded in l gets from a process that has served
\* nothing yet
FreshStatus(l) ==
    IF l.op = "predict"
    THEN PredictAgain(l, l.req, NoModel, 0, ExistingRefs).status
    ELSE TranscribeAgain(l, NoModel, 0, 1).status

\* the step taken is a predict request
PredictStep == served' = served + 1 /\ last'.op = "predict"

(***************************************************************************)
(* C1.  Every transcribe request that created a temporary file has it      *)
(* removed when the request finishes, on every exit path: success, a       *)
(* failure of model loading or decoding, a failure of the write into it.   *)
(* Fails: a failed tmp.write leaves the with block before `try:`, so the   *)
(* finally clause never runs and the file stays.                           *)
(***************************************************************************)
C1_TempFileRemoved ==
    (last.op = "transcribe" /\ last.res.tmp # 0) => last.res.tmp \notin tmpFiles

(***************************************************************************)
(* C2, as stated.  The model constructor runs at most once, and the second *)
(* and later get_model calls return the already-initialized handle.        *)
(* Fails: a constructor that raised leaves the handle unset, and the next  *)
(* call runs it again.                                                     *)
(***************************************************************************)
C2_ConstructorRunsOnce ==
    /\ ctorRuns <= 1
    /\ (CalledGetModel /\ getCalls >= 2) =>
          /\ last.before # NoModel
          /\ last.res.m = last.before

(***************************************************************************)
(* C2, amended.  In every interleaving of the startup hook and the         *)
(* handlers, the constructor returns a handle at most once, and a          *)
(* get_model call made once the handle is set returns that handle and runs *)
(* no constructor (a constructor that raised is run again by the next      *)
(* call).                                                                  *)
(***************************************************************************)
C2_LoadsOnce ==
    /\ loads <= 1
    /\ ctorRuns <= getCalls
    /\ (CalledGetModel /\ last.before # NoModel) =>
          /\ ~last.res.ran
          /\ last.res.m = last.before
          /\ last.res.global = last.before
          /\ Handle = last.before

\* a second get_model call found the handle set by an earlier one
C2_Witness ==
    /\ CalledGetModel
    /\ getCalls >= 2
    /\ last.before # NoModel
    /\ ctorRuns = 1

(***************************************************************************)
(* C3.  No handler calls inference on an unset handle: the handle it calls *)
(* m.transcribe or m.tts_to_file on is the process-wide handle, which is   *)
(* set; and a handle once set is never reassigned nor reset to None.       *)
(***************************************************************************)
C3_InferenceNeedsHandle ==
    /\ [](InvokedInference => (last.res.m # NoModel /\ last.res.m = Handle))
    /\ [][/\ model # NoModel => model' = model
          /\ tts_model # NoModel => tts_model' = tts_model]_vars

\* a handler that found the handle unset loaded it and then called inference
C3_Witness ==
    /\ InvokedInference
    /\ last.before = NoModel
    /\ last.res.m # NoModel

(***************************************************************************)
(* C4.  transcribe answers 400 exactly when the payload has length 0 or    *)
(* more than 30*1024*1024 bytes (exactly 30 MiB is accepted); on a 400 the *)
(* model is not called and no temporary file is created.                   *)
(***************************************************************************)
C4_RejectsBySize ==
    last.op = "transcribe" =>
        /\ last.res.status = 400 <=> ~AcceptedLen(last.len)
        /\ last.res.status = 400 =>
              /\ ~last.res.called
              /\ ~last.res.invoked
              /\ last.res.tmp = 0
              /\ last.created = None
              /\ last.writeOk = None

\* a payload one byte over the limit was refused
C4_Witness ==
    /\ last.op = "transcribe"
    /\ last.len = 30 * 1024 * 1024 + 1
    /\ last.res.status = 400

(***************************************************************************)
(* C5.  A synthesis request whose text is empty or whitespace only, or     *)
(* whose language is empty, is answered 400 before any model work: the     *)
(* request calls neither get_model nor tts_to_file, generates no output    *)
(* identifier, and leaves the files of the output directory as they were.  *)
(***************************************************************************)
C5_RejectedBeforeModelWork ==
    /\ []((last.op = "predict" /\ InvalidSynthesis(last.req)) =>
            /\ last.res.status = 400
            /\ ~last.res.called
            /\ ~last.res.ran
            /\ last.res.mode = "none"
            /\ last.res.file_id = None
            /\ last.res.written = None)
    /\ [][(served' = served + 1 /\ last'.op = "predict" /\ InvalidSynthesis(last'.req)) =>
            /\ outFiles' = outFiles
            /\ issued' = issued
            /\ tts_model' = tts_model
            /\ getCalls' = getCalls
            /\ ctorRuns' = ctorRuns]_vars

\* a whitespace-only text was refused while earlier output was on disk
C5_Witness ==
    /\ last.op = "predict"
    /\ last.req.text = <<" ">>
    /\ last.req.language # ""
    /\ last.res.status = 400
    /\ outFiles # {}

(***************************************************************************)
(* C6.  A valid synthesis request calls tts_to_file, and it calls it with  *)
(* speaker_wav exactly when speaker_wav is supplied, non-empty and names   *)
(* something on disk when the request is handled (a directory, a reference *)
(* recording, a file an earlier synthesis wrote); a request whose          *)
(* speaker_wav is supplied and names nothing is handled exactly as the     *)
(* same request without speaker_wav: default-speaker synthesis, and no     *)
(* failure for the missing reference.  The speaker_wav paths sent are      *)
(* absolute and hold no "." or "..".                                       *)
(***************************************************************************)
C6_CloneOnlyWithExistingReference ==
    [][PredictStep =>
        LET w == last'.req.speaker_wav
            usable == /\ w # None
                      /\ w[1] # <<>>
                      /\ w[1] \in ExistingDirs \cup ExistingRefs \cup outFiles
        IN
        /\ (~InvalidSynthesis(last'.req) /\ last'.ctorOk # Some(FALSE)) =>
              last'.res.mode # "none"
        /\ last'.res.mode # "none" => (last'.res.mode = "clone" <=> usable)
        /\ (w # None /\ ~usable) =>
              last'.res = PredictAgain(last', [last'.req EXCEPT !.speaker_wav = None],
                                       tts_model, loads, Disk)]_vars

\* a request naming a reference that does not exist was served with the default
\* speaker
C6_Witness ==
    /\ last.op = "predict"
    /\ last.req.speaker_wav = Some(<<"/", "gone.wav">>)
    /\ last.res.mode = "default"
    /\ last.res.status = 200

(***************************************************************************)
(* C7.  The language code given to the model is the request's code: every  *)
(* code of the table maps to itself, a code the table lacks passes through *)
(* unchanged and the request is not refused for it (it is never answered   *)
(* 400, and it gets the status the same request in English gets), and      *)
(* meta.language of the response is the requested code.                    *)
(***************************************************************************)
C7_LanguagePassedThrough ==
    /\ [](/\ \A l \in DOMAIN lang_map : lang_map[l] = l
          /\ last.op = "predict" =>
                /\ last.res.lang # None => last.res.lang = Some(last.req.language)
                /\ last.res.body # None => last.res.body[1].language = last.req.language
                /\ last.res.mode # "none" => last.res.lang = Some(last.req.language)
                /\ ~InvalidSynthesis(last.req) => last.res.status # 400)
    /\ [][(PredictStep /\ last'.req.language # "") =>
            last'.res.status =
                PredictAgain(last', [last'.req EXCEPT !.language = "en"],
                             tts_model, loads, Disk).status]_vars

\* a request in a language the table lacks was served
C7_Witness ==
    /\ last.op = "predict"
    /\ last.req.language = "xx"
    /\ last.req.language \notin DOMAIN lang_map
    /\ last.res.status = 200
    /\ last.res.lang = Some("xx")
    /\ last.res.body[1].language = "xx"

(***************************************************************************)
(* C8.  After a successful synthesis the generated file stays on disk      *)
(* through every later request, and a later GET of the returned audio_url  *)
(* answers with exactly the file at the returned audio_path, never 404,    *)
(* whatever voice_id the request carried.                                  *)
(* Fails: voice_id goes into the file name and the URL as it is; with a    *)
(* "?" in it the URL's path ends before the "?", with a leading "/" the    *)
(* file is written outside the output directory and the URL matches no     *)
(* route.                                                                  *)
(***************************************************************************)
C8_AudioUrlServesFile ==
    /\ \A f \in issued : RealPath(f.path) # None /\ RealPath(f.path)[1] \in outFiles
    /\ last.op = "get_audio" =>
          \A f \in issued :
              f.url = last.url =>
                  /\ last.res.status = 200
                  /\ RealPath(last.res.file[1]) = RealPath(f.path)

(***************************************************************************)
(* C9, as stated.  A transcribe or predict request that ends with 400 or   *)
(* 500 leaves the process-wide handle unchanged, and no failed request     *)
(* makes a later one fail: a request served after it is answered with an   *)
(* error only if a process that has served nothing answers it so.          *)
(* Fails: a request that found the handle unset loads the model before its *)
(* inference fails, and the handle it loaded stays.                        *)
(***************************************************************************)
C9_FailureLeavesHandle ==
    /\ []((last.op \in {"transcribe", "predict"} /\ last.res.status # 200) =>
            FreshStatus(last) # 200)
    /\ [][(errors' = errors + 1 /\ last'.op \in {"transcribe", "predict"}) =>
            /\ model' = model
            /\ tts_model' = tts_model]_vars

(***************************************************************************)
(* C9, amended.  A transcribe or predict request that ends with 400 or 500 *)
(* leaves a handle that was set unchanged (one that found it unset may     *)
(* leave it newly loaded), and no failed request makes a later one fail: a *)
(* request served after it is answered with an error only if a process     *)
(* that has served nothing answers it so.                                  *)
(***************************************************************************)
C9_FailureKeepsService ==
    /\ []((last.op \in {"transcribe", "predict"} /\ last.res.status # 200) =>
            FreshStatus(last) # 200)
    /\ [][(errors' = errors + 1 /\ last'.op \in {"transcribe", "predict"}) =>
            /\ model # NoModel => model' = model
            /\ tts_model # NoModel => tts_model' = tts_model
            /\ model' \in {model, loads'}
            /\ tts_model' \in {tts_model, loads'}]_vars

\* a valid request was served after a request of the same process had failed with
\* the handle set
C9_Witness ==
    /\ errors >= 1
    /\ last.op \in {"transcribe", "predict"}
    /\ last.res.status = 200
    /\ last.before # NoModel

(***************************************************************************)
(* C10.  In both synthesis branches the speed given to tts_to_file, and    *)
(* meta.speed, is the request's speed whenever the request sets one, and   *)
(* 1.0 only when speed is null: a speed of 0 is passed as 0.               *)
(* Fails: `req.speed or 1.0` takes 0 for unset and passes 1.0.             *)
(***************************************************************************)
C10_SpeedPassedThrough ==
    last.op = "predict" =>
        LET wanted == IF last.req.speed = None THEN 1 ELSE last.req.speed[1] IN
        /\ last.res.speed # None => last.res.speed = Some(wanted)
        /\ last.res.body # None => last.res.body[1].speed = wanted
=============================================================================
